---- MODULE Spec2Model ----
(***************************************************************************)
(* The App component of frontend/src/App.tsx: the requirement input, the   *)
(* generation request with its loading flag, and the history log with its *)
(* mirror in localStorage.                                                 *)
(*                                                                         *)
(* A JavaScript string is a sequence of one-character strings.  A string   *)
(* literal of the source is a sequence of one element, its text            *)
(* transliterated to ASCII (the original is in the comment beside it).     *)
(***************************************************************************)
EXTENDS Naturals, Sequences, FiniteSets, TLC

VARIABLES
    app,        \* "mounted": the component is on screen; "crashed": the mount effect threw and React removed the tree
    input,      \* useState('')            App.tsx:5
    output,     \* useState('...')         App.tsx:6
    loading,    \* useState(false)         App.tsx:7
    history,    \* useState([])            App.tsx:8
    storage,    \* localStorage item 'testops_history'
    calls,      \* the handleGenerate invocations suspended at an await, oldest first
    clock,      \* the instants read so far by new Date()
    last,       \* the step taken last: which handler ran, on what, and how it ended
    generated   \* the items recorded since the first render, newest first, and whether
                \* the log has been left alone: no clearHistory, no setItem that threw

vars == <<app, input, output, loading, history, storage, calls, clock, last, generated>>

----------------------------------------------------------------------------
(* Bounds of the exploration.                                              *)

\* invocations of handleGenerate that may be suspended at the same time
MaxCalls == 2
\* records (reads of the clock) in the specification Spec
MaxRecords == 2
\* records (reads of the clock) in the specification LongSpec
MaxLongRecords == 11
\* characters of the longest requirement typed in the specification TextSpec
MaxTextLen == 32

----------------------------------------------------------------------------
(* Strings.                                                                *)

Min(a, b) == IF a <= b THEN a ELSE b

\* String.prototype.substring(0, n)
Substring0(s, n) == SubSeq(s, 1, Min(n, Len(s)))

\* a string of n characters c
Repeat(c, n) == [i \in 1..n |-> c]

IsWhiteSpace(c) == c \in {" ", "\n", "\t"}

\* string characters that are not all white space
Blank(s) == \A i \in 1..Len(s) : IsWhiteSpace(s[i])

RECURSIVE TrimStart(_)
TrimStart(s) ==
    IF s # <<>> /\ IsWhiteSpace(Head(s)) THEN TrimStart(Tail(s)) ELSE s

RECURSIVE TrimEnd(_)
TrimEnd(s) ==
    IF s # <<>> /\ IsWhiteSpace(s[Len(s)]) THEN TrimEnd(SubSeq(s, 1, Len(s) - 1)) ELSE s

\* a handler that reads input without trimming it
Trim_Missing(s) == s

\* String.prototype.trim
Trim(s) == TrimEnd(TrimStart(s))

\* the value undefined, where a string is expected
undefined == <<"<undefined>">>

\* the truthiness of a string or undefined
Truthy(s) == s # undefined /\ s # <<>>

----------------------------------------------------------------------------
(* Program constants and string literals.                                  *)

\* text.substring(0, 30), text.length > 30
TitleLimit == 30
\* code.substring(0, 500), code.length > 500
SnippetLimit == 500
\* history.slice(0, 9)
KeptOnRecord == 9

\* '...'
Ellipsis == <<".", ".", ".">>

\* 'Здесь появится Python-код в формате Allure TestOps as Code'
PLACEHOLDER == <<"Zdes' poyavitsya Python-kod v formate Allure TestOps as Code">>
\* "Введите описание требований"
ENTER_REQUIREMENTS == <<"Vvedite opisanie trebovanij">>
\* "Отправка запроса на сервер..."
SENDING == <<"Otpravka zaprosa na server...">>
\* `Ошибка бекенда: `
BACKEND_ERROR == <<"Oshibka bekenda: ">>
\* 'Неизвестная ошибка'
UNKNOWN_ERROR == <<"Neizvestnaya oshibka">>
\* `Ошибка: `
ERROR == <<"Oshibka: ">>
\* `\n\nНеверный формат требования`
BAD_FORMAT == <<"\n", "\n", "Nevernyj format trebovaniya">>

\* the messages of the errors the platform throws inside handleGenerate
FetchFailed == <<"Failed to fetch">>
HttpFailed == <<"HTTP ", "5", "0", "0", ": ", "INTERNAL SERVER ERROR">>
JsonFailed == <<"Unexpected token '<' is not valid JSON">>
SubstringOfUndefined == <<"Cannot read properties of undefined (reading 'substring')">>
QuotaExceeded == <<"Failed to execute 'setItem' on 'Storage': the quota has been exceeded">>

----------------------------------------------------------------------------
(* JSON text of the history: a sequence of tokens.                         *)

Punct(c) == [k |-> "punct", v |-> <<c>>]
Key(name) == [k |-> "key", v |-> <<name>>]
Str(s) == [k |-> "string", v |-> s]

\* Date.prototype.toISOString of the instant t
toISOString(t) == <<ToString(t)>>

StringifyItem(item) ==
    << Punct("{"),
       Key("timestamp"), Str(item.timestamp),
       Key("requirements"), Str(item.requirements),
       Key("code"), Str(item.code),
       Punct("}") >>

RECURSIVE StringifyItems(_)
StringifyItems(h) ==
    IF h = <<>> THEN <<>> ELSE StringifyItem(Head(h)) \o StringifyItems(Tail(h))

\* JSON.stringify of an array of history items
JSONstringify(h) == <<Punct("[")>> \o StringifyItems(h) \o <<Punct("]")>>

SyntaxError == [ok |-> FALSE, value |-> <<>>]

IsItemAt(s) ==
    /\ Len(s) >= 8
    /\ s[1] = Punct("{")
    /\ s[2] = Key("timestamp") /\ s[3].k = "string"
    /\ s[4] = Key("requirements") /\ s[5].k = "string"
    /\ s[6] = Key("code") /\ s[7].k = "string"
    /\ s[8] = Punct("}")

RECURSIVE ParseItems(_)
ParseItems(s) ==
    IF s = <<Punct("]")>> THEN [ok |-> TRUE, value |-> <<>>]
    ELSE IF IsItemAt(s)
         THEN LET rest == ParseItems(SubSeq(s, 9, Len(s)))
                  item == [timestamp |-> s[3].v, requirements |-> s[5].v, code |-> s[7].v]
              IN  IF rest.ok THEN [ok |-> TRUE, value |-> <<item>> \o rest.value]
                  ELSE SyntaxError
         ELSE SyntaxError

\* JSON.parse of the stored text: the array, or a SyntaxError thrown
JSONparse(s) ==
    IF s # <<>> /\ Head(s) = Punct("[") THEN ParseItems(Tail(s)) ELSE SyntaxError

\* localStorage without the item, and with it
NoItem == [present |-> FALSE, text |-> <<>>]
Item(text) == [present |-> TRUE, text |-> text]

\* a stored text cut short: not JSON
CorruptText == <<Punct("["), Punct("{"), Key("timestamp")>>

----------------------------------------------------------------------------
(* The pieces of the handlers.                                             *)

\* the snippet cut with no marker appended
Snippet_NoMarker(code) == Substring0(code, SnippetLimit)

\* code.substring(0, 500) + (code.length > 500 ? '...' : '')
Snippet(code) ==
    Substring0(code, SnippetLimit) \o (IF Len(code) > SnippetLimit THEN Ellipsis ELSE <<>>)

\* the slice taken one item too long
UpdatedHistory_KeepsTen(item, h) == <<item>> \o Substring0(h, KeptOnRecord + 1)

\* [newHistoryItem, ...history.slice(0, 9)]
UpdatedHistory(item, h) == <<item>> \o Substring0(h, KeptOnRecord)

\* `TestOps - `
TITLE_LABEL == <<"T", "e", "s", "t", "O", "p", "s", " ", "-", " ">>

\* the title with the text not cut
Title_Uncut(text) ==
    TITLE_LABEL \o text \o (IF Len(text) > TitleLimit THEN Ellipsis ELSE <<>>)

\* `TestOps - ${text.substring(0, 30)}${text.length > 30 ? '...' : ''}`
Title(text) ==
    TITLE_LABEL \o Substring0(text, TitleLimit)
        \o (IF Len(text) > TitleLimit THEN Ellipsis ELSE <<>>)

createOpenAPIFromText(text) ==
    [openapi |-> "3.0.0",
     info |-> [title |-> Title(text), version |-> "1.0.0", description |-> text],
     paths |-> <<"/test", "get", "responses", "200", "Auto-generated test endpoint">>]

\* Letters with their lower case. A Cyrillic letter is written by its code
\* point: "u+0418" is the capital of "u+0438".
CasePairs ==
    { <<"U", "u">>, <<"I", "i">>, <<"X", "x">>,
      <<"u+0418", "u+0438">>, <<"u+041A", "u+043A">>, <<"u+0421", "u+0441">> }

toLowerCaseChar(c) ==
    IF \E pair \in CasePairs : pair[1] = c
    THEN (CHOOSE pair \in CasePairs : pair[1] = c)[2]
    ELSE c

\* the text compared as typed
toLowerCase_Missing(s) == s

\* String.prototype.toLowerCase
toLowerCase(s) == [i \in 1..Len(s) |-> toLowerCaseChar(s[i])]

\* 'ui'
KEYWORD_UI == <<"u", "i">>
\* 'интерфейс'
KEYWORD_INTERFACE ==
    <<"u+0438", "u+043D", "u+0442", "u+0435", "u+0440", "u+0444", "u+0435", "u+0439", "u+0441">>
\* 'калькулятор'
KEYWORD_CALCULATOR ==
    <<"u+043A", "u+0430", "u+043B", "u+044C", "u+043A", "u+0443", "u+043B", "u+044F",
      "u+0442", "u+043E", "u+0440">>

startsWith(s, sub) == Len(sub) <= Len(s) /\ SubSeq(s, 1, Len(sub)) = sub

\* String.prototype.includes
RECURSIVE includes(_, _)
includes(s, sub) ==
    IF startsWith(s, sub) THEN TRUE
    ELSE IF s = <<>> THEN FALSE
    ELSE includes(Tail(s), sub)

getTestType(text) ==
    LET lower == toLowerCase(text)
    IN  IF \/ includes(lower, KEYWORD_UI)
           \/ includes(lower, KEYWORD_INTERFACE)
           \/ includes(lower, KEYWORD_CALCULATOR)
        THEN "manual_ui"
        ELSE "auto_api"

\* body: { spec: openapiSpec, test_type: testType }
RequestBody(text) == [spec |-> createOpenAPIFromText(text), test_type |-> getTestType(text)]

\* `Ошибка: ${error.message}\n\nНеверный формат требования`
ErrorOutput(message) == ERROR \o message \o BAD_FORMAT

\* the message shown with no fallback
BackendErrorOutput_NoFallback(data) == BACKEND_ERROR \o data.message

\* `Ошибка бекенда: ${data.message || 'Неизвестная ошибка'}`
BackendErrorOutput(data) ==
    BACKEND_ERROR \o (IF Truthy(data.message) THEN data.message ELSE UNKNOWN_ERROR)

\* What the mount effect leaves: the stored array, nothing when there is no
\* stored text, and the component removed when JSON.parse throws.
Loaded(st) ==
    IF st.present /\ st.text # <<>>
    THEN LET parsed == JSONparse(st.text)
         IN  IF parsed.ok THEN [app |-> "mounted", history |-> parsed.value]
             ELSE [app |-> "crashed", history |-> <<>>]
    ELSE [app |-> "mounted", history |-> <<>>]

\* The generate button is disabled while loading; the key handler of the
\* textarea calls handleGenerate whatever loading is.
TriggerEnabled(via) == IF via = "button" THEN ~loading ELSE TRUE

\* a saveToHistory that writes to the store the history it started from
saveToHistory_StoresSnapshot(requirements, code, h, stored) ==
    IF code = undefined
    THEN [threw |-> TRUE, message |-> SubstringOfUndefined,
          history |-> history, storage |-> storage]
    ELSE LET newHistoryItem == [timestamp |-> toISOString(clock + 1),
                                requirements |-> requirements,
                                code |-> Snippet(code)]
             updatedHistory == UpdatedHistory(newHistoryItem, h)
         IN  IF stored
             THEN [threw |-> FALSE, message |-> <<>>,
                   history |-> updatedHistory,
                   storage |-> Item(JSONstringify(h))]
             ELSE [threw |-> TRUE, message |-> QuotaExceeded,
                   history |-> updatedHistory, storage |-> storage]

\* saveToHistory(requirements, code) in a render whose history is h, with
\* setItem succeeding (stored) or throwing: what it leaves, and what it throws.
saveToHistory(requirements, code, h, stored) ==
    IF code = undefined
    THEN [threw |-> TRUE, message |-> SubstringOfUndefined,
          history |-> history, storage |-> storage]
    ELSE LET newHistoryItem == [timestamp |-> toISOString(clock + 1),
                                requirements |-> requirements,
                                code |-> Snippet(code)]
             updatedHistory == UpdatedHistory(newHistoryItem, h)
         IN  IF stored
             THEN [threw |-> FALSE, message |-> <<>>,
                   history |-> updatedHistory,
                   storage |-> Item(JSONstringify(updatedHistory))]
             ELSE [threw |-> TRUE, message |-> QuotaExceeded,
                   history |-> updatedHistory, storage |-> storage]

\* catch (error): the message is shown; nothing else is touched.
Caught(kind, message) ==
    [kind |-> kind, arg |-> message, recorded |-> FALSE, output |-> ErrorOutput(message),
     history |-> history, storage |-> storage, clock |-> clock]

\* data.status === "success": the code is shown and recorded; a throw of
\* saveToHistory lands in the catch, which overwrites the output.
OnSuccess(call, data, stored) ==
    LET saved == saveToHistory(call.text, data.code_text, call.history, stored)
    IN  [kind |-> IF ~saved.threw THEN "success"
                  ELSE IF data.code_text = undefined THEN "no_code" ELSE "not_stored",
         arg |-> data.code_text,
         recorded |-> data.code_text # undefined,
         output |-> IF saved.threw THEN ErrorOutput(saved.message) ELSE data.code_text,
         history |-> saved.history, storage |-> saved.storage, clock |-> clock + 1]

\* the record made before the status is looked at
OnBackendError_Recording(call, data) ==
    LET saved == saveToHistory(call.text, <<>>, call.history, TRUE)
    IN  [kind |-> "backend", arg |-> data.message, recorded |-> FALSE,
         output |-> BackendErrorOutput(data),
         history |-> saved.history, storage |-> saved.storage, clock |-> clock + 1]

\* else: the backend's message is shown.
OnBackendError(call, data) ==
    [kind |-> "backend", arg |-> data.message, recorded |-> FALSE, output |-> BackendErrorOutput(data),
     history |-> history, storage |-> storage, clock |-> clock]

\* clearHistory without the removeItem
StorageAfterRemoveItem_Kept == storage

\* localStorage.removeItem('testops_history')
StorageAfterRemoveItem == NoItem

\* a handler with no finally
LoadingAfterFinally_Missing == loading

\* finally: setLoading(false)
LoadingAfterFinally == FALSE

\* the invocation fetching again instead of ending
Without_Retry(i) ==
    SubSeq(calls, 1, i - 1) \o SubSeq(calls, i + 1, Len(calls))
        \o <<[calls[i] EXCEPT !.pc = "fetch"]>>

\* the suspended invocations once calls[i] has returned
Without(i) == SubSeq(calls, 1, i - 1) \o SubSeq(calls, i + 1, Len(calls))

\* A step: the handler (op), how it ended (kind), the requirement (text) and
\* the code or message (arg) it worked on; after: for a page load, the step before.
\* latest: for the end of a dispatch, whether none was started after it.
Step(op, kind, text, arg) ==
    [op |-> op, kind |-> kind, after |-> "", text |-> text, arg |-> arg, latest |-> FALSE]

\* The end of the invocation calls[i]: the state updates of its last run to
\* completion, applied together.
Settle(i, end) ==
    /\ output' = end.output
    /\ history' = end.history
    /\ storage' = end.storage
    /\ clock' = end.clock
    /\ loading' = LoadingAfterFinally
    /\ calls' = Without(i)
    /\ last' = [Step("result", end.kind, calls[i].text, end.arg)
                    EXCEPT !.latest = calls[i].latest]
    /\ generated' = [items |-> IF end.recorded
                                THEN <<Head(end.history)>> \o generated.items
                                ELSE generated.items,
                      intact |-> generated.intact /\ end.kind # "not_stored"]
    /\ UNCHANGED <<app, input>>

----------------------------------------------------------------------------
(* What the user types and what the backend answers.                       *)

Texts == { <<" ", "\n">>, <<" ", "a", " ">> }

Codes == { Repeat("c", SnippetLimit), Repeat("c", SnippetLimit) \o <<"d">> }

Data(status, code_text, message) ==
    [status |-> status, code_text |-> code_text, message |-> message]

Datas ==
    { Data("success", c, undefined) : c \in Codes \cup {undefined} }
    \cup { Data("error", undefined, m) : m \in {undefined, <<>>, <<"m">>} }

LongTexts == { <<"a">> }

LongDatas == { Data("success", <<"x", "y">>, undefined), Data("error", undefined, <<"m">>) }

\* the item as a previous visit may have left it: absent, or cut short
InitialStorages == { NoItem, Item(CorruptText) }

----------------------------------------------------------------------------
(* The state after the first render and its mount effect.                  *)

Init ==
    /\ storage \in InitialStorages
    /\ app = Loaded(storage).app
    /\ history = Loaded(storage).history
    /\ input = <<>>
    /\ output = PLACEHOLDER
    /\ loading = FALSE
    /\ calls = <<>>
    /\ clock = 0
    /\ last = Step("mount", "", <<>>, <<>>)
    /\ generated = [items |-> <<>>, intact |-> TRUE]

\* The page is loaded again: the state of the first render, then the mount
\* effect. The invocations of the page left behind never resume.
Mount ==
    /\ app' = Loaded(storage).app
    /\ history' = Loaded(storage).history
    /\ input' = <<>>
    /\ output' = PLACEHOLDER
    /\ loading' = FALSE
    /\ calls' = <<>>
    /\ last' = [last EXCEPT !.op = "mount", !.after = last.op]
    /\ UNCHANGED <<storage, clock, generated>>

\* onChange of the textarea
Type(t) ==
    /\ app = "mounted"
    /\ input' = t
    /\ last' = Step("type", "", <<>>, <<>>)
    /\ UNCHANGED <<app, output, loading, history, storage, calls, clock, generated>>

\* handleGenerate up to its first await, from the button or from Ctrl/Cmd+Enter
Generate(via, maxRecords) ==
    /\ app = "mounted"
    /\ TriggerEnabled(via)
    /\ LET text == Trim(input)
       IN  IF text = <<>>
           THEN /\ output' = ENTER_REQUIREMENTS
                /\ last' = Step("generate", "invalid", <<>>, <<via>>)
                /\ UNCHANGED <<app, input, loading, history, storage, calls, clock, generated>>
           ELSE /\ Len(calls) < MaxCalls
                /\ clock + Len(calls) < maxRecords
                /\ loading' = TRUE
                /\ output' = SENDING
                /\ calls' = Append([i \in 1..Len(calls) |-> [calls[i] EXCEPT !.latest = FALSE]],
                                    [pc |-> "fetch", text |-> text, history |-> history,
                                     body |-> RequestBody(text), latest |-> TRUE])
                /\ last' = Step("generate", "dispatched", <<>>, <<via>>)
                /\ UNCHANGED <<app, input, history, storage, clock, generated>>

\* fetch rejects: no connection, no answer
FetchRejects(i) ==
    /\ calls[i].pc = "fetch"
    /\ Settle(i, Caught("transport", FetchFailed))

\* fetch resolves: !response.ok throws, otherwise response.json() is awaited
FetchResolves(i, ok) ==
    /\ calls[i].pc = "fetch"
    /\ IF ok
       THEN /\ calls' = [calls EXCEPT ![i].pc = "json"]
            /\ last' = Step("response", "ok", <<>>, <<>>)
            /\ UNCHANGED <<app, input, output, loading, history, storage, clock, generated>>
       ELSE Settle(i, Caught("http", HttpFailed))

\* response.json() rejects: the body is not JSON
JsonRejects(i) ==
    /\ calls[i].pc = "json"
    /\ Settle(i, Caught("malformed", JsonFailed))

\* response.json() resolves with data; stored: whether setItem succeeds
JsonResolves(i, data, stored) ==
    /\ calls[i].pc = "json"
    /\ Settle(i, IF data.status = "success"
                 THEN OnSuccess(calls[i], data, stored)
                 ELSE OnBackendError(calls[i], data))

handleClear ==
    /\ app = "mounted"
    /\ input' = <<>>
    /\ output' = PLACEHOLDER
    /\ last' = Step("clear", "", <<>>, <<>>)
    /\ UNCHANGED <<app, loading, history, storage, calls, clock, generated>>

\* the stored code cut to the limit once more
ReplayedOutput_CutAgain(item) == Substring0(item.code, SnippetLimit)

\* setOutput(item.code)
ReplayedOutput(item) == item.code

\* a click on the history item at index i
loadFromHistory(i) ==
    /\ app = "mounted"
    /\ input' = history[i].requirements
    /\ output' = ReplayedOutput(history[i])
    /\ last' = Step("replay", "", <<>>, <<>>)
    /\ UNCHANGED <<app, loading, history, storage, calls, clock, generated>>

\* the button is rendered only while the history is not empty
clearHistory ==
    /\ app = "mounted"
    /\ Len(history) > 0
    /\ history' = <<>>
    /\ storage' = StorageAfterRemoveItem
    /\ last' = Step("clearHistory", "", <<>>, <<>>)
    /\ generated' = [generated EXCEPT !.intact = FALSE]
    /\ UNCHANGED <<app, input, output, loading, calls, clock>>

NextOver(texts, datas, vias, maxRecords) ==
    \/ Mount
    \/ \E t \in texts : Type(t)
    \/ \E via \in vias : Generate(via, maxRecords)
    \/ \E i \in 1..Len(calls) : FetchRejects(i)
    \/ \E i \in 1..Len(calls), ok \in BOOLEAN : FetchResolves(i, ok)
    \/ \E i \in 1..Len(calls) : JsonRejects(i)
    \/ \E i \in 1..Len(calls), data \in datas, stored \in BOOLEAN : JsonResolves(i, data, stored)
    \/ handleClear
    \/ \E i \in 1..Len(history) : loadFromHistory(i)
    \/ clearHistory

Next == NextOver(Texts, Datas, {"button", "key"}, MaxRecords)

Spec == Init /\ [][Next]_vars

LongNext == NextOver(LongTexts, LongDatas, {"button"}, MaxLongRecords)

LongSpec == Init /\ [][LongNext]_vars

\* Requirements of every length up to MaxTextLen, each character telling
\* its place, and words with and without a keyword, alone and inside a
\* longer word.
Numbered(n) == [i \in 1..n |-> ToString(i % 10)]

Words ==
    { <<"u", "i">>, <<"U", "I">>, <<"u", "x", "i">>, <<"i", "u">>,
      KEYWORD_INTERFACE, <<"u+0418">> \o Tail(KEYWORD_INTERFACE),
      SubSeq(KEYWORD_INTERFACE, 1, Len(KEYWORD_INTERFACE) - 1),
      KEYWORD_CALCULATOR, <<"u+041A">> \o Tail(KEYWORD_CALCULATOR),
      Tail(KEYWORD_CALCULATOR) }

TypedTexts ==
    { Numbered(n) : n \in 0..MaxTextLen }
    \cup { Repeat("x", p) \o w \o Repeat("X", q) : p \in 0..1, q \in 0..1, w \in Words }

\* The requests sent for what is typed, with the backend out of reach.
TextNext ==
    \/ \E t \in TypedTexts : Type(t)
    \/ Generate("button", MaxRecords)
    \/ \E i \in 1..Len(calls) : FetchRejects(i)

TextSpec == Init /\ [][TextNext]_vars

\* The invocation calls[i] is resumed: its promise settles one way or another.
Resume(i) ==
    /\ i \in 1..Len(calls)
    /\ \/ FetchRejects(i)
       \/ \E ok \in BOOLEAN : FetchResolves(i, ok)
       \/ JsonRejects(i)
       \/ \E data \in Datas, stored \in BOOLEAN : JsonResolves(i, data, stored)

\* Spec, with every pending promise settled in the end: the transport
\* resolves or errors.
FairSpec == Spec /\ \A i \in 1..MaxCalls : WF_vars(Resume(i))

----------------------------------------------------------------------------
(* The claims.                                                             *)

\* the stored array, empty when there is no item or its text is not JSON
StoredLog == IF storage.present THEN JSONparse(storage.text).value ELSE <<>>

Requirements(h) == [i \in 1..Len(h) |-> h[i].requirements]

\* the ways a dispatch fails: fetch rejected, HTTP status not ok, body not
\* JSON, status not "success", "success" without code_text
FailureKinds == {"transport", "http", "malformed", "backend", "no_code"}

\* C1: while loading is true, no step starts another dispatch: the number of
\* suspended invocations of handleGenerate does not grow.
C1_NoSecondDispatch == [][loading => Len(calls') <= Len(calls)]_vars

\* C2: a step that ends a dispatch in a failure leaves the history and the
\* stored history as they were.
C2_FailureWritesNoHistory ==
    [][(last'.op = "result" /\ last'.kind \in FailureKinds)
          => (history' = history /\ storage' = storage)]_vars

C2_Witness ==
    /\ last.op = "result" /\ last.kind = "backend"
    /\ Len(history) > 0 /\ storage.present

\* C3: the history in memory and the stored history hold at most 10 items.
C3_AtMostTen == Len(history) <= 10 /\ Len(StoredLog) <= 10

\* an eleventh record has been made on a full history
C3_Witness ==
    /\ last.op = "result" /\ last.kind = "success"
    /\ clock >= 11 /\ Len(history) = 10 /\ Len(StoredLog) = 10

\* C4: as long as the history has not been cleared (and no setItem has
\* thrown), the requirements in the history are those of the records made
\* so far, newest first, cut to the 10 most recent.
C4_TenMostRecent ==
    (app = "mounted" /\ generated.intact)
        => Requirements(history) = Requirements(Substring0(generated.items, 10))

\* C5: clearHistory leaves the history empty and no stored item, and a page
\* load that follows it at once comes up with an empty history.
C5_ClearThenLoad ==
    /\ last.op = "clearHistory" => (history = <<>> /\ ~storage.present)
    /\ (last.op = "mount" /\ last.after = "clearHistory")
          => (app = "mounted" /\ history = <<>>)

\* a page load right after a clearHistory that removed records
C5_Witness == last.op = "mount" /\ last.after = "clearHistory" /\ clock > 0

\* C6: a page load comes up mounted, with the stored array as its history,
\* and with an empty history when there is no item or its text is not JSON.
C6_LoadNeverFails ==
    last.op = "mount" => (app = "mounted" /\ history = StoredLog)

\* C7: when setItem throws during the record of a generated code, the
\* history has the new item first and the output is still the code.
C7_StoreFailureHidden ==
    (last.op = "result" /\ last.kind = "not_stored")
        => /\ history # <<>>
           /\ history[1].requirements = last.text
           /\ output = last.arg

\* C8: every step that ends a dispatch, in success or in failure, leaves
\* loading false; and when every pending promise settles in the end, a state
\* with loading true leads to one with loading false and the generate
\* button enabled.
C8_BackToIdle ==
    /\ [][last'.op = "result" => ~loading']_vars
    /\ loading ~> (~loading /\ app = "mounted" /\ TriggerEnabled("button"))

\* a dispatch has ended and nothing is pending
C8_Witness ==
    last.op = "result" /\ ~loading /\ calls = <<>> /\ app = "mounted"

\* C9: a trigger of handleGenerate on an input that is empty or all white
\* space shows the invalid-input message and starts no dispatch: loading,
\* the suspended invocations, the history and the stored history stay.
C9_BlankInput ==
    [][(Blank(input) /\ last'.op = "generate")
          => /\ last'.kind = "invalid"
             /\ output' = ENTER_REQUIREMENTS
             /\ loading' = loading /\ calls' = calls
             /\ history' = history /\ storage' = storage]_vars

\* a trigger on white space, idle, with a history to keep
C9_Witness ==
    /\ last.op = "generate" /\ last.kind = "invalid"
    /\ input # <<>> /\ Blank(input)
    /\ ~loading /\ Len(history) > 0 /\ storage.present

\* C10: a page load right after a record that was stored comes up with the
\* history as the record left it, item for item, its first item holding the
\* recorded requirement and the code: whole when it has at most 500
\* characters, else its first 500 characters and the 3-character marker.
C10_RecordThenLoad ==
    [][(last.op = "result" /\ last.kind = "success" /\ last'.op = "mount")
          => /\ app' = "mounted"
             /\ history' = history
             /\ history' # <<>>
             /\ history'[1].requirements = last.text
             /\ history'[1].code =
                    IF Len(last.arg) <= 500 THEN last.arg
                    ELSE SubSeq(last.arg, 1, 500) \o <<".", ".", ".">>
             /\ Len(history'[1].code) <= 503]_vars

\* loaded right after the record of a code longer than 500 characters, on
\* top of an older item
C10_Witness ==
    /\ last.op = "mount" /\ last.after = "result" /\ last.kind = "success"
    /\ Len(last.arg) > 500
    /\ Len(history) >= 2 /\ Len(history[1].code) = 503

\* sub occurs in s
Includes(s, sub) ==
    \E k \in 0..(Len(s) - Len(sub)) : SubSeq(s, k + 1, k + Len(sub)) = sub

\* C11: a dispatch whose fetch rejects or whose HTTP status is not ok ends
\* with the output holding the cause, the component still mounted and
\* loading false, and with its invocation gone and no other started: the
\* request is not sent again.
C11_TransportFailure ==
    [][(last'.op = "result" /\ last'.kind \in {"transport", "http"})
          => /\ last'.kind = "transport" => Includes(output', FetchFailed)
             /\ last'.kind = "http" => Includes(output', HttpFailed)
             /\ Head(output') = Head(ERROR)
             /\ app' = "mounted" /\ ~loading'
             /\ Len(calls') = Len(calls) - 1
             /\ \A j \in 1..Len(calls') : \E i \in 1..Len(calls) : calls'[j] = calls[i]]_vars

\* a dispatch ended by an HTTP status that is not ok, another still pending
C11_Witness ==
    /\ last.op = "result" /\ last.kind = "http"
    /\ Len(calls) = 1 /\ Includes(output, HttpFailed)

\* C12, as claimed: after an answer whose status is not "success", the
\* message shown after the backend-error label is the message field of the
\* answer, and the fallback only when the answer has no message field.
C12_BackendMessage ==
    (last.op = "result" /\ last.kind = "backend")
        => output = BACKEND_ERROR \o (IF last.arg # undefined THEN last.arg
                                                                ELSE UNKNOWN_ERROR)

\* C12, amended: the message shown after the label is the message field when
\* it is a non-empty string, and the fallback when the field is absent or empty.
C12_BackendMessageOrFallback ==
    (last.op = "result" /\ last.kind = "backend")
        => output = BACKEND_ERROR \o (IF last.arg = undefined \/ last.arg = <<>>
                                      THEN UNKNOWN_ERROR ELSE last.arg)

\* an answer with status "error" and message ""
C12_Witness ==
    /\ last.op = "result" /\ last.kind = "backend" /\ last.arg = <<>>
    /\ output = BACKEND_ERROR \o UNKNOWN_ERROR

\* C13: a click on a history item puts its requirement in the input and its
\* stored code, as stored, in the output, and leaves the history, the stored
\* history, loading and the suspended invocations as they were.
C13_Replay ==
    [][last'.op = "replay"
          => /\ \E i \in 1..Len(history) :
                    input' = history[i].requirements /\ output' = history[i].code
             /\ history' = history /\ storage' = storage
             /\ loading' = loading /\ calls' = calls]_vars

\* the replay of a cut code, marker included, while a dispatch is pending
C13_Witness ==
    /\ last.op = "replay" /\ loading
    /\ input = <<"a">> /\ Len(output) = 503
    /\ SubSeq(output, 501, 503) = <<".", ".", ".">>

\* C14, as claimed: the title of a request has at most 33 characters, and
\* for a text of more than 30 characters it ends with the marker and starts
\* with the first 30 characters of the text.
C14_Title ==
    \A i \in 1..Len(calls) :
        LET text == calls[i].text
            title == calls[i].body.spec.info.title
        IN  /\ Len(title) <= 33
            /\ Len(text) > 30 =>
                  /\ SubSeq(title, Len(title) - 2, Len(title)) = <<".", ".", ".">>
                  /\ SubSeq(title, 1, 30) = SubSeq(text, 1, 30)

\* C14, amended: the title is the 10-character label "TestOps - " and then
\* at most 33 characters, 43 in all; for a text of more than 30 characters it
\* ends with the marker and holds, after the label, the first 30 characters
\* of the text.
C14_LabelledTitle ==
    \A i \in 1..Len(calls) :
        LET text == calls[i].text
            title == calls[i].body.spec.info.title
        IN  /\ Len(title) <= 43
            /\ Len(title) >= 10
            /\ SubSeq(title, 1, 10) = <<"T", "e", "s", "t", "O", "p", "s", " ", "-", " ">>
            /\ Len(text) > 30 =>
                  /\ SubSeq(title, Len(title) - 2, Len(title)) = <<".", ".", ".">>
                  /\ SubSeq(title, 11, 40) = SubSeq(text, 1, 30)

\* a request for a text of 32 characters
C14_Witness ==
    \E i \in 1..Len(calls) :
        Len(calls[i].text) = 32 /\ Len(calls[i].body.spec.info.title) = 43

\* some keyword occurs in text at some place, letter case aside
HoldsKeyword(text) ==
    \E kw \in {KEYWORD_UI, KEYWORD_INTERFACE, KEYWORD_CALCULATOR} :
        \E k \in 0..(Len(text) - Len(kw)) :
            \A j \in 1..Len(kw) :
                \/ text[k + j] = kw[j]
                \/ <<text[k + j], kw[j]>> \in CasePairs

\* C15: the test_type of a request is manual_ui exactly when its text holds
\* a keyword at some place, letter case aside, and auto_api otherwise.
C15_TestType ==
    \A i \in 1..Len(calls) :
        calls[i].body.test_type =
            IF HoldsKeyword(calls[i].text) THEN "manual_ui" ELSE "auto_api"

\* a request for a keyword in capitals inside a longer word
C15_Witness ==
    \E i \in 1..Len(calls) :
        /\ calls[i].text = <<"x", "U", "I", "X">>
        /\ calls[i].body.test_type = "manual_ui"


\* C16 (as the specification states it): once clearHistory has run, no item
\* recorded before it is in the history again, in memory or in the store,
\* also when a dispatch was pending at the clear: the step that follows
\* clearHistory leaves none of the items of the instants read so far.
Recorded(t) == { toISOString(k) : k \in 1..t }

C16_ClearedStaysCleared ==
    [][last.op = "clearHistory"
        => /\ \A i \in 1..Len(history') : history'[i].timestamp \notin Recorded(clock)
           /\ \A i \in 1..Len(StoredLog') : StoredLog'[i].timestamp \notin Recorded(clock)]_vars

\* C17 (as the specification states it): the record of a successful
\* generation puts its item first in the history and drops no item that was
\* there, the cap apart: each of the first 9 items of the history before the
\* record is in the history after it.
C17_NoGenerationLost ==
    [][(last'.op = "result" /\ last'.kind = "success")
        => /\ history' # <<>>
           /\ Head(history').requirements = last'.text
           /\ \A i \in 1..Min(Len(history), KeptOnRecord) :
                 \E j \in 1..Len(history') : history'[j] = history[i]]_vars

\* C18 (as the specification states it): whenever a dispatched request has
\* not resolved yet, loading is true.
C18_BusyFlagAccurate == (app = "mounted" /\ calls # <<>>) => loading

\* C19: right after the record of a generated code whose setItem did not
\* throw, and right after clearHistory, the stored text is absent or parses,
\* and the stored array is the history in memory, item for item in the same
\* order.
C19_StoreMirrorsHistory ==
    ((last.op = "result" /\ last.kind = "success") \/ last.op = "clearHistory")
        => /\ storage.present => JSONparse(storage.text).ok
           /\ Len(StoredLog) = Len(history)
           /\ \A i \in 1..Len(history) : StoredLog[i] = history[i]

C19_Witness ==
    /\ last.op = "result" /\ last.kind = "success"
    /\ Len(history) = 2 /\ storage.present /\ StoredLog = history

\* C20 (as the specification states it): whenever no request is in flight
\* and the last step that wrote the output was the end of a dispatch, that
\* dispatch is the one started last: none was started after it.
C20_LatestDispatchShown ==
    (app = "mounted" /\ calls = <<>> /\ last.op = "result") => last.latest

====
